---------------------------- MODULE Spec2Model ----------------------------
(***************************************************************************)
(* City Data Reporter (reporter.py): prompt for a city, fetch the weather  *)
(* over HTTP, parse the payload, print a report, append a row to a CSV log *)
(* and summarise the log.                                                  *)
(*                                                                         *)
(* Python values are tagged records [t, s, n] so that values of different  *)
(* Python types can be compared: t is the type tag, s the text of a str,   *)
(* n the number (units for an int, thousandths for a float).  Text that    *)
(* the program only passes around is a TLA+ string; a line typed by the    *)
(* user is a sequence of one-character strings, because strip() looks at   *)
(* its characters.                                                         *)
(***************************************************************************)
EXTENDS Integers, Sequences, FiniteSets, TLC

\* ------------------------------------------------------------------ bounds
MaxRuns == 2          \* invocations of main against the same log
MaxBlank == 2         \* blank lines typed before a city, per invocation
MaxLineLen == 3       \* characters of a typed line

\* ------------------------------------------------------------ Python values
Missing == [t |-> "missing", s |-> "", n |-> 0]     \* the key is absent
Null == [t |-> "null", s |-> "", n |-> 0]           \* JSON null, None
Inf == [t |-> "inf", s |-> "", n |-> 0]             \* JSON Infinity / 1e400
NaN == [t |-> "nan", s |-> "", n |-> 0]             \* JSON NaN
StrV(s) == [t |-> "str", s |-> s, n |-> 0]
IntV(n) == [t |-> "int", s |-> "", n |-> n]
FltV(m) == [t |-> "float", s |-> "", n |-> m]        \* m thousandths

Abs(n) == IF n < 0 THEN -n ELSE n

\* str(x) for the values the model draws.
PyStr(v) ==
    CASE v.t = "str" -> v.s
      [] v.t = "null" -> "None"
      [] v.t = "int" -> ToString(v.n)
      [] v.t = "inf" -> "inf"
      [] v.t = "nan" -> "nan"

\* Texts float() and int() accept, with their values (thousandths, units).
FloatTexts == {"12.5", "70"}
FloatOfText(s) == IF s = "12.5" THEN 12500 ELSE 70000
IntTexts == {"70"}
IntOfText(s) == 70

\* float(x): [exc, v]; exc = "" when it returns v.
PyFloat(v) ==
    CASE v.t = "float" -> [exc |-> "", v |-> v]
      [] v.t = "int" -> [exc |-> "", v |-> FltV(v.n * 1000)]
      [] v.t \in {"inf", "nan"} -> [exc |-> "", v |-> v]
      [] v.t = "str" -> IF v.s \in FloatTexts
                        THEN [exc |-> "", v |-> FltV(FloatOfText(v.s))]
                        ELSE [exc |-> "ValueError", v |-> Null]
      [] v.t = "null" -> [exc |-> "TypeError", v |-> Null]
      [] v.t = "missing" -> [exc |-> "KeyError", v |-> Null]

\* int(x): truncates a float toward zero; int(inf) raises OverflowError and
\* int(nan) raises ValueError.
PyInt(v) ==
    CASE v.t = "int" -> [exc |-> "", v |-> v]
      [] v.t = "float" -> [exc |-> "",
                           v |-> IntV(IF v.n < 0 THEN -(Abs(v.n) \div 1000)
                                               ELSE v.n \div 1000)]
      [] v.t = "inf" -> [exc |-> "OverflowError", v |-> Null]
      [] v.t = "nan" -> [exc |-> "ValueError", v |-> Null]
      [] v.t = "str" -> IF v.s \in IntTexts
                        THEN [exc |-> "", v |-> IntV(IntOfText(v.s))]
                        ELSE [exc |-> "ValueError", v |-> Null]
      [] v.t = "null" -> [exc |-> "TypeError", v |-> Null]
      [] v.t = "missing" -> [exc |-> "KeyError", v |-> Null]

\* f"{x:.1f}": one decimal place, ties to even (the floats drawn are either
\* no tie or a tie that is exact in binary).
FormatOneDecimal(v) ==
    IF v.t # "float" THEN PyStr(v)
    ELSE LET a == Abs(v.n)
             q == a \div 100
             r == a % 100
             tenths == IF r > 50 \/ (r = 50 /\ q % 2 = 1) THEN q + 1 ELSE q
         IN (IF v.n < 0 THEN "-" ELSE "") \o ToString(tenths \div 10)
                \o "." \o ToString(tenths % 10)

\* ---------------------------------------------------------- get_city_input
Whitespace == {" ", "\t"}
Chars == {" ", "a"}                 \* what the modelled user types

RECURSIVE LStrip(_)
LStrip(s) == IF s # << >> /\ Head(s) \in Whitespace THEN LStrip(Tail(s)) ELSE s

RECURSIVE RStrip(_)
RStrip(s) ==
    IF s # << >> /\ s[Len(s)] \in Whitespace
    THEN RStrip(SubSeq(s, 1, Len(s) - 1))
    ELSE s

\* strip() that forgets the right-hand side.
Strip_LeftOnly(s) == LStrip(s)

\* str.strip()
Strip(s) == RStrip(LStrip(s))


\* ------------------------------------------------------------ fetch_weather
\* A JSON document of the API: the items parse_weather reads and the
\* "message" item of an error body.  root is "array" for a document that is
\* not an object.  weather.t is "missing", "null", "empty" (a list of
\* length 0), "scalars" (a list whose first element is no object) or "list"
\* (first element an object whose description is weather.d, Missing when it
\* has none).
Doc(root, name, country, temp, humidity, weather, message) ==
    [root |-> root, name |-> name, country |-> country, temp |-> temp,
     humidity |-> humidity, weather |-> weather, message |-> message]

Weather(t, d) == [t |-> t, d |-> d]

NoDoc == Doc("none", Missing, Missing, Missing, Missing,
             Weather("missing", Missing), Missing)

NoCity == << >>

\* requests.Response.ok: raise_for_status() raises for 400 <= status < 600.
ResponseOk(status) == ~(400 <= status /\ status < 600)

\* Python truth value of a JSON value.
Truthy(v) ==
    CASE v.t \in {"missing", "null"} -> FALSE
      [] v.t = "str" -> v.s # ""
      [] v.t \in {"int", "float"} -> v.n # 0
      [] OTHER -> TRUE

\* detail = resp.json().get("message", ""), "" when that raises;
\* then detail or 'Unexpected error.'
ErrorDetail(ex) ==
    IF ex.json /\ ex.doc.root = "object" /\ Truthy(ex.doc.message)
    THEN PyStr(ex.doc.message)
    ELSE "Unexpected error."

\* What fetch_weather does: a returned payload or the RuntimeError raised,
\* named by the error category its message belongs to, with the parts of
\* the message and the number of network calls issued.
FetchResult(kind, payload, msgCity, msgStatus, detail, calls) ==
    [kind |-> kind, payload |-> payload, msgCity |-> msgCity,
     msgStatus |-> msgStatus, detail |-> detail, calls |-> calls]

\* The status tests in the order the code makes them, after requests.get
\* returned.
StatusResult(city, ex) ==
    IF ex.status = 401
    THEN FetchResult("AuthError", NoDoc, NoCity, 401, "", 1)
    ELSE IF ex.status = 404
    THEN FetchResult("NotFoundError", NoDoc, city, 404, "", 1)
    ELSE IF ~ResponseOk(ex.status)
    THEN FetchResult("ApiError", NoDoc, NoCity, ex.status, ErrorDetail(ex), 1)
    ELSE IF ex.json
    THEN FetchResult("payload", ex.doc, NoCity, 0, "", 1)
    ELSE FetchResult("DecodeError", NoDoc, NoCity, 0, "", 1)

\* A credential test that never fires.
CredentialMissing_Never(api_key) == FALSE

\* The credential test that comes before any network call.
CredentialMissing(api_key) == api_key = ""

\* ex is the exchange the network produces if it is asked: transport "fail"
\* (requests.RequestException) or "ok" with a status and a body.
fetch_weather(city, api_key, ex) ==
    IF CredentialMissing(api_key)
    THEN FetchResult("ConfigError", NoDoc, NoCity, 0, "", 0)
    ELSE IF ex.transport = "fail"
    THEN FetchResult("NetworkError", NoDoc, NoCity, 0, "", 1)
    ELSE StatusResult(city, ex)

\* ------------------------------------------------------------ parse_weather
Headers == <<"City", "Country", "Temperature (C)", "Humidity (%)", "Description">>
HeaderSet == {Headers[i] : i \in 1..Len(Headers)}

NoRecord == [h \in HeaderSet |-> Missing]

\* payload["name"], payload["sys"]["country"], ...: the exception a
\* subscript raises, "" when it yields the item.
SubscriptExc(payload, v) ==
    IF payload.root # "object" THEN "TypeError"
    ELSE IF v.t = "missing" THEN "KeyError"
    ELSE ""

\* payload["weather"][0]["description"]
DescriptionExc(payload) ==
    IF payload.root # "object" THEN "TypeError"
    ELSE CASE payload.weather.t = "missing" -> "KeyError"
           [] payload.weather.t = "null" -> "TypeError"
           [] payload.weather.t = "empty" -> "IndexError"
           [] payload.weather.t = "scalars" -> "TypeError"
           [] payload.weather.t = "list" ->
                IF payload.weather.d.t = "missing" THEN "KeyError" ELSE ""

\* The exceptions the except clause of parse_weather names.
CaughtByParse == {"KeyError", "IndexError", "TypeError", "ValueError"}

\* The first exception of a sequence of evaluations, "" when none raises.
RECURSIVE FirstExc(_)
FirstExc(excs) ==
    IF excs = << >> THEN ""
    ELSE IF Head(excs) # "" THEN Head(excs)
    ELSE FirstExc(Tail(excs))

\* The five extractions in source order; outcome "ok" with the record,
\* "SchemaError" for a caught exception, else the name of the exception that
\* leaves parse_weather unconverted.
parse_weather(payload) ==
    LET e1 == SubscriptExc(payload, payload.name)
        e2 == SubscriptExc(payload, payload.country)
        e3 == IF SubscriptExc(payload, payload.temp) # ""
              THEN SubscriptExc(payload, payload.temp)
              ELSE PyFloat(payload.temp).exc
        e4 == IF SubscriptExc(payload, payload.humidity) # ""
              THEN SubscriptExc(payload, payload.humidity)
              ELSE PyInt(payload.humidity).exc
        e5 == DescriptionExc(payload)
        exc == FirstExc(<<e1, e2, e3, e4, e5>>)
    IN IF exc = ""
       THEN [outcome |-> "ok",
             rec |-> [h \in HeaderSet |->
                 CASE h = "City" -> payload.name
                   [] h = "Country" -> payload.country
                   [] h = "Temperature (C)" ->
                        StrV(FormatOneDecimal(PyFloat(payload.temp).v))
                   [] h = "Humidity (%)" -> StrV(PyStr(PyInt(payload.humidity).v))
                   [] h = "Description" -> StrV(PyStr(payload.weather.d))]]
       ELSE IF exc \in CaughtByParse
       THEN [outcome |-> "SchemaError", rec |-> NoRecord]
       ELSE [outcome |-> exc, rec |-> NoRecord]


\* ------------------------------------------------------------- the CSV log
(***************************************************************************)
(* The path of the log: kind "missing", "file" (rows: the rows csv.reader  *)
(* would read from it, each a sequence of texts; << >> is a zero-length    *)
(* file) or "dir" (the path names a directory: it exists, its st_size is   *)
(* not 0, and every open() of it raises IsADirectoryError, an OSError).    *)
(* A write fault is the point at which the filesystem refuses: "open_w"    *)
(* and "write_header" in ensure_csv_headers, "append" in write_row_to_csv. *)
(***************************************************************************)
Path(kind, rows) == [kind |-> kind, rows |-> rows]

WriteFaults == {"none", "open_w", "write_header", "append"}

\* What csv.writer writes for a field and csv.reader reads back: None is
\* written as the empty text, any other value as str(value).
CsvText(v) == IF v.t = "null" THEN "" ELSE PyStr(v)

\* The list write_row_to_csv hands to writerow, as written.
CsvRow(row) == [i \in 1..Len(Headers) |-> CsvText(row[Headers[i]])]

\* The header test without the st_size half.
NeedsHeader_ExistsOnly(path) == path.kind = "missing"

\* not path.exists() or path.stat().st_size == 0
NeedsHeader(path) ==
    path.kind = "missing" \/ (path.kind = "file" /\ path.rows = << >>)

\* [path, exc]: the path afterwards and the exception raised ("" for none).
ensure_csv_headers(path, fault) ==
    IF ~NeedsHeader(path) THEN [path |-> path, exc |-> ""]
    ELSE IF fault = "open_w" THEN [path |-> path, exc |-> "OSError"]
    ELSE IF fault = "write_header"
    THEN [path |-> Path("file", << >>), exc |-> "OSError"]
    ELSE [path |-> Path("file", <<Headers>>), exc |-> ""]

\* The data row written through open("w"): the log is truncated first.
AppendRow_Truncating(row, path, fault) ==
    IF path.kind = "dir" \/ fault = "append"
    THEN [path |-> path, exc |-> "OSError"]
    ELSE [path |-> Path("file", <<CsvRow(row)>>), exc |-> ""]

\* path.open("a") and writerow of the one data row.
AppendRow(row, path, fault) ==
    IF path.kind = "dir" \/ fault = "append"
    THEN [path |-> path, exc |-> "OSError"]
    ELSE [path |-> Path("file", Append(path.rows, CsvRow(row))), exc |-> ""]

write_row_to_csv(row, path, fault) ==
    LET h == ensure_csv_headers(path, fault)
    IN IF h.exc # "" THEN h ELSE AppendRow(row, h.path, fault)

\* summarize_csv's result: None, or the count and the lines after it.
NoSummary == [none |-> TRUE, total |-> 0, lines |-> << >>]

\* A reader that takes the header row for a data row.
DictReaderRows_HeaderAsData(rows) == SelectSeq(rows, LAMBDA r : r # << >>)

\* csv.DictReader: the first row is the field names; blank rows after it
\* are skipped.
DictReaderRows(rows) ==
    IF rows = << >> THEN << >>
    ELSE SelectSeq(Tail(rows), LAMBDA r : r # << >>)

\* r.get(key, default) of a DictReader row: the field under the last column
\* named key, None (restval) when the row is shorter, default when no
\* column is named key.
RowGet(fieldnames, r, key, default) ==
    LET idx == {i \in 1..Len(fieldnames) : fieldnames[i] = key}
    IN IF idx = {} THEN default
       ELSE LET i == CHOOSE j \in idx : \A k \in idx : k <= j
            IN IF i <= Len(r) THEN r[i] ELSE "None"

\* One line of the summary, as the parts joined by the format string.
SummaryLine(fieldnames, r) ==
    <<"- ", RowGet(fieldnames, r, "City", "?"), " - ",
      RowGet(fieldnames, r, "Temperature (C)", "?"), " C">>

\* [exc, value]; readFault: the filesystem refuses the open for reading.
summarize_csv(path, readFault) ==
    IF path.kind = "missing" THEN [exc |-> "", value |-> NoSummary]
    ELSE IF path.kind = "dir" \/ readFault
    THEN [exc |-> "OSError", value |-> NoSummary]
    ELSE LET rows == DictReaderRows(path.rows)
         IN IF rows = << >> THEN [exc |-> "", value |-> NoSummary]
            ELSE [exc |-> "",
                  value |-> [none |-> FALSE, total |-> Len(rows),
                             lines |-> [i \in 1..Len(rows) |->
                                 SummaryLine(path.rows[1], rows[i])]]]


\* ------------------------------------------------------------------ inputs
\* The lines the user may type.
Lines == UNION {[1..n -> Chars] : n \in 0..MaxLineLen}

\* A line with nothing but whitespace in it.
IsBlank(line) == \A i \in 1..Len(line) : line[i] \in Whitespace

GoodDoc ==
    Doc("object", StrV("Paris"), StrV("FR"), FltV(18456), IntV(60),
        Weather("list", StrV("clear sky")), Missing)

\* HTTP statuses the server may answer with.
Statuses == {200, 204, 304, 401, 403, 404, 500}

\* The documents the server may send in a run of main.
MainDocs ==
    {GoodDoc,
     Doc("object", StrV("Tokyo"), StrV("JP"), IntV(22), FltV(55900),
         Weather("list", StrV("few clouds")), Missing),
     [GoodDoc EXCEPT !.name = Null],
     [GoodDoc EXCEPT !.humidity = Missing],
     [GoodDoc EXCEPT !.humidity = Inf],
     [GoodDoc EXCEPT !.weather = Weather("empty", Missing)],
     [NoDoc EXCEPT !.root = "object", !.message = StrV("blocked")],
     [NoDoc EXCEPT !.root = "array"]}

NoExchange == [transport |-> "none", status |-> 0, json |-> FALSE, doc |-> NoDoc]

\* What the network may do with the one request.
Exchanges ==
    {[transport |-> "fail", status |-> 0, json |-> FALSE, doc |-> NoDoc]}
    \cup {[transport |-> "ok", status |-> s, json |-> FALSE, doc |-> NoDoc] :
            s \in Statuses}
    \cup {[transport |-> "ok", status |-> s, json |-> TRUE, doc |-> d] :
            s \in Statuses, d \in MainDocs}

\* The values of OPENWEATHER_API_KEY: unset or empty, and set.
ApiKeys == {"", "k"}

\* The documents parse_weather is applied to on its own.
NameVals == {StrV("Paris"), IntV(7), Null, Missing}
CountryVals == {StrV("FR"), Null, Missing}
TempVals == {FltV(18456), FltV(-2340), IntV(15), StrV("12.5"), StrV("abc"),
             NaN, Null, Missing}
HumidityVals == {IntV(60), FltV(60700), StrV("70"), StrV("12.5"), Inf, NaN,
                 Null, Missing}
WeatherVals == {Weather("list", StrV("clear sky")), Weather("list", Null),
                Weather("list", Missing), Weather("empty", Missing),
                Weather("scalars", Missing), Weather("null", Missing),
                Weather("missing", Missing)}
AllDocs ==
    {Doc("object", a, b, c, d, e, Missing) :
        a \in NameVals, b \in CountryVals, c \in TempVals,
        d \in HumidityVals, e \in WeatherVals}
    \cup {[NoDoc EXCEPT !.root = "array"]}

\* ------------------------------------------------------------------- state
VARIABLES
    run,         \* the number of this invocation of main
    pc,          \* where main is
    apiKey,      \* os.getenv("OPENWEATHER_API_KEY", "")
    lastLine,    \* the line input() returned last
    linesRead,   \* lines input() returned in this invocation
    blanksRead,  \* blank lines typed in this invocation
    city,        \* what get_city_input returned, << >> before it returns
    out,         \* what this invocation printed, as message kinds in order
    exch,        \* the HTTP exchange of this invocation, NoExchange if none
    netCalls,    \* requests.get calls of this invocation
    fetched,     \* what fetch_weather did
    parsed,      \* what parse_weather did
    path,        \* CSV_PATH on disk
    pathAtStart, \* CSV_PATH when this invocation started
    written,     \* the records of the write_row_to_csv calls that returned
    writeExc,    \* the exception of this invocation's write_row_to_csv
    summary,     \* what summarize_csv returned
    uncaught,    \* the exception that left main, "" if none
    exitCode     \* the process's exit code, -1 while it runs

vars == <<run, pc, apiKey, lastLine, linesRead, blanksRead, city, out, exch, netCalls,
          fetched, parsed, path, pathAtStart, written, writeExc, summary,
          uncaught, exitCode>>

NoFetch == FetchResult("none", NoDoc, NoCity, 0, "", 0)
NoParse == [outcome |-> "none", rec |-> NoRecord]

Init ==
    /\ run = 1
    /\ pc = "CollectingInput"
    /\ apiKey \in ApiKeys
    /\ lastLine = << >>
    /\ linesRead = 0
    /\ blanksRead = 0
    /\ city = NoCity
    /\ out = << >>
    /\ exch = NoExchange
    /\ netCalls = 0
    /\ fetched = NoFetch
    /\ parsed = NoParse
    /\ path \in {Path("missing", << >>), Path("file", << >>), Path("dir", << >>)}
    /\ pathAtStart = path
    /\ written = << >>
    /\ writeExc = ""
    /\ summary = NoSummary
    /\ uncaught = ""
    /\ exitCode = -1

\* sys.exit(1) after the [ERROR] line.
Fail ==
    /\ pc' = "Failed"
    /\ out' = Append(out, "error")
    /\ exitCode' = 1

\* An exception nothing catches: the interpreter prints the traceback and
\* the process ends with exit code 1.
Crash(exc) ==
    /\ pc' = "Crashed"
    /\ uncaught' = exc
    /\ out' = Append(out, "traceback")
    /\ exitCode' = 1

\* One turn of get_city_input's loop: input(), strip(), return or reprompt.
get_city_input ==
    /\ pc = "CollectingInput"
    /\ \E line \in Lines :
        /\ IsBlank(line) => blanksRead < MaxBlank
        /\ lastLine' = line
        /\ linesRead' = linesRead + 1
        /\ blanksRead' = IF IsBlank(line) THEN blanksRead + 1 ELSE blanksRead
        /\ IF Strip(line) # << >>
           THEN /\ city' = Strip(line)
                /\ pc' = "Fetching"
                /\ out' = out
           ELSE /\ out' = Append(out, "reprompt")
                /\ UNCHANGED <<city, pc>>
    /\ UNCHANGED <<run, apiKey, exch, netCalls, fetched, parsed, path,
                   pathAtStart, written, writeExc, summary, uncaught, exitCode>>

\* fetch_weather(city, api_key) inside main's try.
Fetch ==
    /\ pc = "Fetching"
    /\ \E ex \in Exchanges :
        LET r == fetch_weather(city, apiKey, ex)
        IN /\ fetched' = r
           /\ netCalls' = netCalls + r.calls
           /\ exch' = IF r.calls = 0 THEN NoExchange ELSE ex
           /\ IF r.kind = "payload"
              THEN pc' = "Parsing" /\ UNCHANGED <<out, exitCode>>
              ELSE Fail
    /\ UNCHANGED <<run, apiKey, lastLine, linesRead, blanksRead,
                   city, parsed, path,
                   pathAtStart, written, writeExc, summary, uncaught>>

\* parse_weather(payload) inside main's try.
Parse ==
    /\ pc = "Parsing"
    /\ LET r == parse_weather(fetched.payload)
       IN /\ parsed' = r
          /\ IF r.outcome = "ok"
             THEN pc' = "Reporting" /\ UNCHANGED <<out, exitCode, uncaught>>
             ELSE IF r.outcome = "SchemaError"
             THEN Fail /\ UNCHANGED uncaught
             ELSE Crash(r.outcome)
    /\ UNCHANGED <<run, apiKey, lastLine, linesRead, blanksRead,
                   city, exch, netCalls,
                   fetched, path, pathAtStart, written, writeExc, summary>>

\* The print of the report block.
Report ==
    /\ pc = "Reporting"
    /\ out' = Append(out, "report")
    /\ pc' = "Persisting"
    /\ UNCHANGED <<run, apiKey, lastLine, linesRead, blanksRead,
                   city, exch, netCalls,
                   fetched, parsed, path, pathAtStart, written, writeExc,
                   summary, uncaught, exitCode>>

\* A write failure that aborts the run.
AfterPersist_Abort(exc) == IF exc # "" THEN "Failed" ELSE "Summarizing"

\* Where main goes after the try around write_row_to_csv.
AfterPersist(exc) == "Summarizing"

\* try: write_row_to_csv(data, CSV_PATH) ... except OSError: [WARNING]
Persist ==
    /\ pc = "Persisting"
    /\ \E fault \in WriteFaults :
        LET w == write_row_to_csv(parsed.rec, path, fault)
        IN /\ path' = w.path
           /\ writeExc' = w.exc
           /\ written' = IF w.exc = "" THEN Append(written, parsed.rec)
                         ELSE written
           /\ out' = Append(out, IF w.exc = "" THEN "saved" ELSE "warning")
           /\ pc' = AfterPersist(w.exc)
    /\ UNCHANGED <<run, apiKey, lastLine, linesRead, blanksRead,
                   city, exch, netCalls,
                   fetched, parsed, pathAtStart, summary, uncaught, exitCode>>

\* summary = summarize_csv(CSV_PATH); if summary: print it; main returns.
Summarize ==
    /\ pc = "Summarizing"
    /\ \E readFault \in BOOLEAN :
        LET s == summarize_csv(path, readFault)
        IN IF s.exc # ""
           THEN Crash(s.exc) /\ UNCHANGED summary
           ELSE /\ summary' = s.value
                /\ out' = IF s.value.none THEN out ELSE Append(out, "summary")
                /\ pc' = "Done"
                /\ exitCode' = 0
                /\ UNCHANGED uncaught
    /\ UNCHANGED <<run, apiKey, lastLine, linesRead, blanksRead,
                   city, exch, netCalls,
                   fetched, parsed, path, pathAtStart, written, writeExc>>

\* The program is invoked again, against the log the earlier runs left.
StartRun ==
    /\ pc \in {"Done", "Failed", "Crashed"}
    /\ run < MaxRuns
    /\ run' = run + 1
    /\ pc' = "CollectingInput"
    /\ apiKey' \in ApiKeys
    /\ lastLine' = << >>
    /\ linesRead' = 0
    /\ blanksRead' = 0
    /\ city' = NoCity
    /\ out' = << >>
    /\ exch' = NoExchange
    /\ netCalls' = 0
    /\ fetched' = NoFetch
    /\ parsed' = NoParse
    /\ pathAtStart' = path
    /\ writeExc' = ""
    /\ summary' = NoSummary
    /\ uncaught' = ""
    /\ exitCode' = -1
    /\ UNCHANGED <<path, written>>

Next ==
    \/ get_city_input
    \/ Fetch
    \/ Parse
    \/ Report
    \/ Persist
    \/ Summarize
    \/ StartRun

Spec == Init /\ [][Next]_vars


\* parse_weather applied on its own to every document of AllDocs.
InitParse ==
    /\ run = 1
    /\ pc = "Parsing"
    /\ apiKey = "k"
    /\ lastLine = <<"a">>
    /\ linesRead = 1
    /\ blanksRead = 0
    /\ city = <<"a">>
    /\ out = << >>
    /\ \E d \in AllDocs :
        /\ exch = [transport |-> "ok", status |-> 200, json |-> TRUE, doc |-> d]
        /\ fetched = FetchResult("payload", d, NoCity, 0, "", 1)
    /\ netCalls = 1
    /\ parsed = NoParse
    /\ path = Path("missing", << >>)
    /\ pathAtStart = path
    /\ written = << >>
    /\ writeExc = ""
    /\ summary = NoSummary
    /\ uncaught = ""
    /\ exitCode = -1

SpecParse == InitParse /\ [][Parse]_vars


\* ------------------------------------------------------------------ claims
Terminal == {"Done", "Failed", "Crashed"}

Count(seq, x) == Cardinality({i \in 1..Len(seq) : seq[i] = x})

\* The data rows of the log: every row after the first.
DataRows(p) == IF p.kind = "file" /\ p.rows # << >> THEN Len(p.rows) - 1 ELSE 0

\* C1: on a path that was missing or zero-length at first, once one or more
\* write_row_to_csv calls have returned the log is the header row, exactly
\* once and first, followed by one data row per such call in call order.
C1_HeaderOnceThenRows ==
    (path.kind # "dir" /\ written # << >>) =>
        /\ path.kind = "file"
        /\ Len(path.rows) = 1 + Len(written)
        /\ path.rows[1] = Headers
        /\ \A i \in 2..Len(path.rows) : path.rows[i] # Headers
        /\ \A i \in 1..Len(written) : path.rows[i + 1] = CsvRow(written[i])

\* Two appends, of different records, to a log that was zero-length.
C1_Witness ==
    /\ Len(written) = 2
    /\ written[1] # written[2]
    /\ path.kind = "file"
    /\ Len(path.rows) = 3
    /\ run = 2
    /\ pc = "Done"

\* C2: when fetch and parse succeed and the CSV write fails, main prints a
\* [WARNING] line, never enters Failed, and ends in Done with exit code 0.
C2_WriteFailureNonFatal ==
    (writeExc # "" /\ pc \in Terminal) =>
        /\ "warning" \in {out[i] : i \in 1..Len(out)}
        /\ pc = "Done"
        /\ exitCode = 0

\* The failures the [ERROR] handler of main is there for.
FetchFailures == {"ConfigError", "NetworkError", "AuthError", "NotFoundError",
                  "ApiError", "DecodeError"}
FetchOrParseFailed ==
    fetched.kind \in FetchFailures \/ parsed.outcome = "SchemaError"

\* C3: a run ends with exit code 1 exactly when fetch_weather or
\* parse_weather failed with one of the seven error categories, and then one
\* [ERROR] line is printed; no exception leaves main; every other run ends
\* with exit code 0.
C3_ExitCodeOneIffFetchOrParseFailed ==
    pc \in Terminal =>
        /\ exitCode = 1 <=> FetchOrParseFailed
        /\ FetchOrParseFailed => Count(out, "error") = 1
        /\ ~FetchOrParseFailed => exitCode = 0
        /\ uncaught = ""

\* C4: after a completed HTTP exchange, 401 gives AuthError, 404 gives
\* NotFoundError naming the city, every other status outside 200..299 gives
\* ApiError naming the status, and a payload is returned only for 2xx.
C4_StatusMapping ==
    (exch.transport = "ok" /\ fetched.kind # "none") =>
        /\ exch.status = 401 => fetched.kind = "AuthError"
        /\ exch.status = 404 =>
            fetched.kind = "NotFoundError" /\ fetched.msgCity = city
        /\ (exch.status \notin 200..299 /\ exch.status \notin {401, 404}) =>
            fetched.kind = "ApiError" /\ fetched.msgStatus = exch.status
        /\ fetched.kind = "payload" => exch.status \in 200..299

\* C5: with an empty credential fetch_weather fails with ConfigError,
\* whatever the city, and no network call is issued.
C5_EmptyCredentialConfigError ==
    (apiKey = "" /\ pc \notin {"CollectingInput", "Fetching"}) =>
        /\ fetched.kind = "ConfigError"
        /\ netCalls = 0
        /\ exch = NoExchange
        /\ pc = "Failed"

\* A run with the credential unset got past the fetch, for a city typed
\* with blanks around it.
C5_Witness ==
    /\ apiKey = ""
    /\ pc = "Failed"
    /\ fetched.kind = "ConfigError"
    /\ city = <<"a", " ", "a">>

\* What the parser's contract asks of a payload.
WellFormed(p) ==
    /\ p.root = "object"
    /\ p.name.t = "str"
    /\ p.country.t = "str"
    /\ p.temp.t \in {"int", "float"} \/ (p.temp.t = "str" /\ p.temp.s \in FloatTexts)
    /\ p.humidity.t \in {"int", "float"}
           \/ (p.humidity.t = "str" /\ p.humidity.s \in IntTexts)
    /\ p.weather.t = "list"
    /\ p.weather.d.t # "missing"

\* C6: parse_weather either fails with SchemaError and returns no record, or
\* returns a record whose five fields are all present and non-null; and it
\* fails with SchemaError whenever a required item is missing, of the wrong
\* shape or not coercible.
C6_ParseAtomicAndValidated ==
    parsed.outcome # "none" =>
        /\ \/ parsed.outcome = "SchemaError" /\ parsed.rec = NoRecord
           \/ /\ parsed.outcome = "ok"
              /\ \A h \in HeaderSet : parsed.rec[h].t \notin {"missing", "null"}
        /\ ~WellFormed(fetched.payload) => parsed.outcome = "SchemaError"

\* C7: summarize_csv returns nothing for a missing log and for a log with no
\* data row; for a log with the header and N >= 1 data rows it returns the
\* count N and N lines, the City and Temperature of each data row in file
\* order; and it leaves the log as it was.
C7_SummaryOfLog ==
    /\ [](pc = "Done" =>
            /\ DataRows(path) = 0 => summary = NoSummary
            /\ (DataRows(path) >= 1 /\ path.rows[1] = Headers) =>
                /\ ~summary.none
                /\ summary.total = DataRows(path)
                /\ Len(summary.lines) = DataRows(path)
                /\ \A i \in 1..DataRows(path) :
                    summary.lines[i] =
                        <<"- ", path.rows[i + 1][1], " - ",
                          path.rows[i + 1][3], " C">>)
    /\ [][pc = "Summarizing" => path' = path]_vars

\* A summary of a log that holds two different data rows.
C7_Witness ==
    /\ pc = "Done"
    /\ DataRows(path) = 2
    /\ summary.total = 2
    /\ path.rows[2] # path.rows[3]

\* The orchestrator's states in order.
Order == <<"CollectingInput", "Fetching", "Parsing", "Reporting", "Persisting",
           "Summarizing", "Done">>
OrderSet == {Order[i] : i \in 1..Len(Order)}
Rank(s) == CHOOSE i \in 1..Len(Order) : Order[i] = s

\* C8: within a run main moves only from one state of Order to the next,
\* Failed is entered only from Fetching or Parsing and is never left, and at
\* most one network call is issued.
C8_LinearOrderOneCall ==
    [][run' = run =>
        /\ (pc' # pc /\ pc' \in OrderSet) =>
            pc \in OrderSet /\ Rank(pc') = Rank(pc) + 1
        /\ (pc' = "Failed" /\ pc # "Failed") => pc \in {"Fetching", "Parsing"}
        /\ pc = "Failed" => pc' = "Failed"
        /\ netCalls' <= 1
        /\ netCalls' >= netCalls]_vars

\* A run that went all the way, with its one call, after its write failed.
C8_Witness ==
    /\ pc = "Done"
    /\ netCalls = 1
    /\ writeExc # ""

\* c is line without its leading and trailing whitespace.
IsTrimOf(c, line) ==
    /\ c # << >>
    /\ c[1] \notin Whitespace
    /\ c[Len(c)] \notin Whitespace
    /\ \E i \in 0..Len(line) :
        /\ i + Len(c) <= Len(line)
        /\ SubSeq(line, i + 1, i + Len(c)) = c
        /\ \A k \in 1..i : line[k] \in Whitespace
        /\ \A k \in (i + Len(c) + 1)..Len(line) : line[k] \in Whitespace

\* C9: after k blank lines and then a line that is not blank,
\* get_city_input has returned that line trimmed, never the empty string,
\* and the reprompt was printed exactly k times.
C9_TrimmedCityAfterReprompts ==
    /\ Count(out, "reprompt") = blanksRead
    /\ pc = "CollectingInput" => linesRead = blanksRead /\ city = << >>
    /\ pc # "CollectingInput" =>
        /\ linesRead = blanksRead + 1
        /\ ~IsBlank(lastLine)
        /\ IsTrimOf(city, lastLine)

\* Two blank lines, then a city typed with a blank on either side.
C9_Witness ==
    /\ pc = "Fetching"
    /\ blanksRead = 2
    /\ lastLine = <<" ", "a", " ">>
    /\ city = <<"a">>

\* C10: a run that ends on a fetch or parse error leaves the log as it was
\* and prints neither the report nor the summary; a run whose fetch, parse
\* and write succeed adds exactly one data row; so the data rows of the log
\* are as many as the runs whose write succeeded.
C10_LogGrowsByOnePerSuccessfulRun ==
    /\ (pc \in {"Failed", "Crashed"} /\ parsed.outcome # "ok") =>
        /\ path = pathAtStart
        /\ Count(out, "report") = 0
        /\ Count(out, "summary") = 0
    /\ (pc \in Terminal /\ parsed.outcome = "ok" /\ writeExc = "") =>
        DataRows(path) = DataRows(pathAtStart) + 1
    /\ DataRows(path) = Len(written)

\* A failed second run after a first run that wrote its row.
C10_Witness ==
    /\ run = 2
    /\ pc = "Failed"
    /\ Len(written) = 1
    /\ DataRows(path) = 1

=============================================================================
